---- MODULE Spec2Model ----
(***************************************************************************)
(* pngme: a codec for a PNG-like container of length-prefixed, CRC-checked *)
(* chunks (src/src/chunk.rs) and the command line that edits files with it *)
(* (src/src/main.rs).  chunk_type.rs and png.rs are not part of the source *)
(* tree at hand; ChunkType_* and Png_* below follow the written design.    *)
(*                                                                         *)
(* Bytes are integers 0..255, byte buffers and strings are sequences (a    *)
(* string is the sequence of its chars' code points).  A u32 does not fit  *)
(* TLC's 32-bit integers, so it is the record [hi, lo] of its two 16-bit  *)
(* halves, value hi * 65536 + lo.                                          *)
(***************************************************************************)
EXTENDS Integers, Sequences, FiniteSets

(***************************************************************************)
(* Bounds of the exploration.                                              *)
(***************************************************************************)
MaxData == 2      \* longest payload handed to Chunk::new
MaxChunks == 2    \* most chunk records in a container buffer or file

(***************************************************************************)
(* Sequences and the 32-bit words.                                         *)
(***************************************************************************)
Min(a, b) == IF a < b THEN a ELSE b

\* Iterator::take(n) on what is left of a slice iterator, and what is left after it
Take(s, n) == SubSeq(s, 1, Min(n, Len(s)))
Drop(s, n) == SubSeq(s, Min(n, Len(s)) + 1, Len(s))

RECURSIVE SeqsUpTo(_, _)
SeqsUpTo(S, n) ==
    IF n = 0 THEN {<<>>}
    ELSE LET shorter == SeqsUpTo(S, n - 1)
         IN  shorter \cup {Append(s, x) : s \in {t \in shorter : Len(t) = n - 1}, x \in S}

RECURSIVE Concat(_)
Concat(ss) == IF ss = <<>> THEN <<>> ELSE Head(ss) \o Concat(Tail(ss))

\* bitwise exclusive or, one bit of weight w at a time
XorBit(a, b, w) == (((a \div w) + (b \div w)) % 2) * w
XorBits(a, b) ==
    XorBit(a, b, 1) + XorBit(a, b, 2) + XorBit(a, b, 4) + XorBit(a, b, 8)
    + XorBit(a, b, 16) + XorBit(a, b, 32) + XorBit(a, b, 64) + XorBit(a, b, 128)
\* the same, looked up
XorTable == [a \in 0..255 |-> [b \in 0..255 |-> XorBits(a, b)]]
Xor8(a, b) == XorTable[a][b]
Xor16(a, b) == Xor8(a % 256, b % 256) + 256 * Xor8(a \div 256, b \div 256)

U32(h, l) == [hi |-> h, lo |-> l]
XorU32(x, y) == U32(Xor16(x.hi, y.hi), Xor16(x.lo, y.lo))
Shr1(x) == U32(x.hi \div 2, (x.lo \div 2) + 32768 * (x.hi % 2))
Shr8(x) == U32(x.hi \div 256, (x.lo \div 256) + 256 * (x.hi % 256))

\* u32::from_be_bytes on a 4-byte array
u32_from_be_bytes(b) == U32(b[1] * 256 + b[2], b[3] * 256 + b[4])

\* u32::to_be_bytes
u32_to_be_bytes(x) == <<x.hi \div 256, x.hi % 256, x.lo \div 256, x.lo % 256>>

\* usize -> u32 (data.len().try_into().unwrap()); lengths here are far below 2^31
u32_from_usize(n) == U32(n \div 65536, n % 65536)

\* take(length as usize): every slice here is shorter than 65536 bytes, so a
\* length with a high half takes all that is left
TakeU32(s, x) == IF x.hi > 0 THEN s ELSE Take(s, x.lo)

(***************************************************************************)
(* CRC-32/ISO-HDLC (crc crate, CRC_32_ISO_HDLC): reflected polynomial      *)
(* 0xEDB88320, initial value and final xor 0xFFFFFFFF.                     *)
(***************************************************************************)
CrcPoly == U32(60856, 33568)
AllOnes == U32(65535, 65535)

\* one bit of the reflected division
CrcStep(c) == IF c.lo % 2 = 1 THEN XorU32(Shr1(c), CrcPoly) ELSE Shr1(c)

\* the 256-entry lookup table: eight steps from each byte value
CrcTable ==
    [i \in 0..255 |->
        CrcStep(CrcStep(CrcStep(CrcStep(CrcStep(CrcStep(CrcStep(CrcStep(U32(0, i)))))))))]

\* Digest::update
RECURSIVE digest_update(_, _)
digest_update(crc, bytes) ==
    LET Rest(next) == IF next.hi >= 0 THEN digest_update(next, Tail(bytes)) ELSE next
    IN  IF bytes = <<>> THEN crc
        ELSE Rest(XorU32(CrcTable[Xor8(crc.lo % 256, Head(bytes))], Shr8(crc)))

\* Digest::finalize
digest_finalize(crc) == XorU32(crc, AllOnes)

\* digest(); update(a); update(b); finalize()
Checksum(a, b) == digest_finalize(digest_update(digest_update(AllOnes, a), b))

(***************************************************************************)
(* Strings.                                                                *)
(***************************************************************************)
\* str::as_bytes: the UTF-8 encoding (chars below U+0800 are enough here)
Utf8Char(c) == IF c < 128 THEN <<c>> ELSE <<192 + (c \div 64), 128 + (c % 64)>>

RECURSIVE str_as_bytes(_)
str_as_bytes(s) == IF s = <<>> THEN <<>> ELSE Utf8Char(Head(s)) \o str_as_bytes(Tail(s))

IsAscii(s) == \A i \in 1..Len(s) : s[i] < 128

(***************************************************************************)
(* ChunkType: four ASCII-alphabetic bytes.                                 *)
(***************************************************************************)
IsAsciiAlphabetic(b) == (b >= 65 /\ b <= 90) \/ (b >= 97 /\ b <= 122)

\* TryFrom<[u8; 4]> for ChunkType
ChunkType_try_from(bytes) ==
    IF \A i \in 1..4 : IsAsciiAlphabetic(bytes[i])
    THEN [kind |-> "ok", err |-> "", chunk_type |-> bytes]
    ELSE [kind |-> "err", err |-> "InvalidChunkType", chunk_type |-> <<>>]

\* FromStr for ChunkType
ChunkType_from_str(s) ==
    LET bytes == str_as_bytes(s)
    IN  IF Len(bytes) = 4 THEN ChunkType_try_from(bytes)
        ELSE [kind |-> "err", err |-> "InvalidChunkType", chunk_type |-> <<>>]

ChunkType_bytes(t) == t

\* Display for ChunkType: each byte as the char of that code
ChunkType_to_string(t) == [i \in 1..4 |-> t[i]]

(***************************************************************************)
(* Chunk.                                                                  *)
(***************************************************************************)
NoChunk == [absent |-> TRUE]

Ok(c) == [kind |-> "ok", err |-> "", chunk |-> c]
Err(e) == [kind |-> "err", err |-> e, chunk |-> NoChunk]
Panic(e) == [kind |-> "panic", err |-> e, chunk |-> NoChunk]

\* Chunk::new with the type bytes counted into the length
Chunk_new_LengthWithType(chunk_type, data) ==
    [length     |-> u32_from_usize(Len(ChunkType_bytes(chunk_type)) + Len(data)),
     chunk_type |-> chunk_type,
     chunk_data |-> data,
     crc        |-> Checksum(ChunkType_bytes(chunk_type), data)]

\* Chunk::new with the type bytes left out of the checksum
Chunk_new_CrcOfData(chunk_type, data) ==
    [length     |-> u32_from_usize(Len(data)),
     chunk_type |-> chunk_type,
     chunk_data |-> data,
     crc        |-> Checksum(<<>>, data)]

\* Chunk::new
Chunk_new(chunk_type, data) ==
    [length     |-> u32_from_usize(Len(data)),
     chunk_type |-> chunk_type,
     chunk_data |-> data,
     crc        |-> Checksum(ChunkType_bytes(chunk_type), data)]

\* the stored crc read least significant byte first
ParseCrc_LittleEndian(remaining_bytes) ==
    u32_from_be_bytes(<<remaining_bytes[4], remaining_bytes[3],
                        remaining_bytes[2], remaining_bytes[1]>>)

\* u32::from_be_bytes(remaining_bytes.try_into().unwrap()), on 4 bytes
ParseCrc(remaining_bytes) == u32_from_be_bytes(remaining_bytes)

\* the comparison left out
CrcMatches_Always(crc, original_crc) == TRUE

\* crc == original_crc
CrcMatches(crc, original_crc) == crc = original_crc

\* TryFrom<&[u8]> for Chunk.  The two unwrap()s on a Vec -> [u8; 4] conversion
\* panic when the vector is not 4 bytes long; the conversion of the type bytes
\* uses `?` and returns the slice error instead.
Chunk_try_from(value) ==
    LET lengthBytes == Take(value, 4)
        iter1       == Drop(value, 4)
    IN  IF Len(lengthBytes) # 4 THEN Panic("unwrap length")
        ELSE
        LET length           == u32_from_be_bytes(lengthBytes)
            chunk_type_bytes == Take(iter1, 4)
            iter2            == Drop(iter1, 4)
        IN  IF Len(chunk_type_bytes) # 4 THEN Err("TryFromSliceError")
            ELSE
            LET chunk_type == ChunkType_try_from(chunk_type_bytes)
            IN  IF chunk_type.kind # "ok" THEN Err(chunk_type.err)
                ELSE
                LET data            == TakeU32(iter2, length)
                    iter3           == Drop(iter2, Len(data))
                    remaining_bytes == Take(iter3, 4)
                IN  IF Len(remaining_bytes) # 4 THEN Panic("unwrap crc")
                    ELSE
                    LET original_crc == ParseCrc(remaining_bytes)
                        crc          == Checksum(chunk_type_bytes, data)
                    IN  IF CrcMatches(crc, original_crc)
                        THEN Ok([length     |-> length,
                                 chunk_type |-> chunk_type.chunk_type,
                                 chunk_data |-> data,
                                 crc        |-> crc])
                        ELSE Err("InvalidCrc")

\* u32::to_le_bytes
u32_to_le_bytes(x) == <<x.lo % 256, x.lo \div 256, x.hi % 256, x.hi \div 256>>

\* Chunk::as_bytes with the two numbers written least significant byte first
Chunk_as_bytes_LittleEndian(c) ==
    u32_to_le_bytes(c.length) \o ChunkType_bytes(c.chunk_type)
        \o c.chunk_data \o u32_to_le_bytes(c.crc)

\* Chunk::as_bytes without the crc at the end
Chunk_as_bytes_NoCrc(c) ==
    u32_to_be_bytes(c.length) \o ChunkType_bytes(c.chunk_type) \o c.chunk_data

\* Chunk::as_bytes
Chunk_as_bytes(c) ==
    u32_to_be_bytes(c.length) \o ChunkType_bytes(c.chunk_type)
        \o c.chunk_data \o u32_to_be_bytes(c.crc)

\* Chunk::data_as_string: `*byte as char`, the char whose code is the byte
Chunk_data_as_string(c) == [i \in 1..Len(c.chunk_data) |-> c.chunk_data[i]]

(***************************************************************************)
(* Inputs of the chunk-level exploration.                                  *)
(***************************************************************************)
\* CRC-32/ISO-HDLC by its definition, bit by bit over one byte string
RECURSIVE CrcBitwise(_, _)
CrcBitwise(c, bytes) ==
    LET Rest(n) == IF n.hi >= 0 THEN CrcBitwise(n, Tail(bytes)) ELSE n
    IN  IF bytes = <<>> THEN c
        ELSE Rest(CrcStep(CrcStep(CrcStep(CrcStep(CrcStep(CrcStep(CrcStep(CrcStep(
                 U32(c.hi, c.lo - (c.lo % 256) + Xor8(c.lo % 256, Head(bytes)))
             )))))))))

Crc32IsoHdlc(bytes) == XorU32(CrcBitwise(AllOnes, bytes), AllOnes)

\* a well-formed record as the tests lay it out: the length, the type, the
\* payload and the crc of type and payload, the two numbers big-endian
RecordOf(t, d) ==
    <<0, 0, Len(d) \div 256, Len(d) % 256>> \o t \o d
        \o u32_to_be_bytes(Crc32IsoHdlc(t \o d))

RuSt == <<82, 117, 83, 116>>
tEXt == <<116, 69, 88, 116>>
ChunkTypes == {RuSt, tEXt}
DataBytes == {0, 255}
Payloads == SeqsUpTo(DataBytes, MaxData)

\* the record of every type and payload within the bounds
Records == {RecordOf(t, d) : t \in ChunkTypes, d \in Payloads}

\* bit i (0 = least significant) of the big-endian crc field that ends at
\* byte `last` of buffer b, flipped
FlipCrcBit(b, last, i) ==
    LET pos == last - (i \div 8)
        bit == IF (i % 8) = 0 THEN 1 ELSE 2 ^ (i % 8)
    IN  [b EXCEPT ![pos] = Xor8(@, bit)]

\* the crc bits flipped in the buffers given as input
FlipBits == {0, 15, 31}

Prefixes(b) == {SubSeq(b, 1, n) : n \in 0..Len(b)}

\* buffers handed to Chunk::try_from: the records, every truncation of one,
\* records followed by more bytes, a crc bit flipped, a type byte that is no
\* letter, and a length field that disagrees with the payload
InputBuffers ==
    UNION {Prefixes(r) : r \in Records}
    \cup {r \o <<7>> : r \in Records}
    \cup {r \o r : r \in Records}
    \cup {FlipCrcBit(r, Len(r), i) : r \in Records, i \in FlipBits}
    \cup {[r EXCEPT ![7] = 49] : r \in Records}
    \cup {[r EXCEPT ![4] = @ + 1] : r \in Records}
    \cup {[r EXCEPT ![4] = @ - 1] : r \in {q \in Records : q[4] > 0}}
    \cup {[r EXCEPT ![1] = 255] : r \in Records}

(***************************************************************************)
(* Chunk-level state: the result of the last constructor call, the buffer  *)
(* last parsed or produced.                                                *)
(***************************************************************************)
VARIABLES
    call,     \* the last operation: "none", "new", "try_from", "as_bytes"
    res,      \* result of the last Chunk::new / Chunk::try_from
    made,     \* which of the two produced res ("none" at the start)
    src,      \* the buffer res was parsed from (when made = "try_from")
    buf,      \* the buffer last passed to try_from or returned by as_bytes
    orig      \* as_bytes bookkeeping: the chunk serialised into buf and what made it

chunkVars == <<call, res, made, src, buf, orig>>

\* the state of one Png from its construction on
VARIABLES
    png,      \* the container: not yet built ("none"), built ("ok"), or the failure
    pcall,    \* the last operation on it
    pbuf,     \* the buffer it was parsed from, until it is changed
    parg,     \* the type string of the last remove_chunk
    pprev,    \* the chunk list before the last append_chunk / remove_chunk
    pret      \* what the last remove_chunk returned

pngVars == <<png, pcall, pbuf, parg, pprev, pret>>

\* the state of the command line
VARIABLES
    files,    \* the file system
    cmd,      \* the last command and its arguments
    outcome,  \* how it ended: [kind, err]
    stdout,   \* what it printed
    enc,      \* when it was an encode that succeeded: what the file held before
    prevEnc   \* enc as it was before the last command

cliVars == <<files, cmd, outcome, stdout, enc, prevEnc>>

NoOrig == [chunk |-> NoChunk, made |-> "none"]

InitChunk ==
    /\ call = "none"
    /\ res = Err("")
    /\ made = "none"
    /\ src = <<>>
    /\ buf = <<>>
    /\ orig = NoOrig

\* let c = Chunk::new(t, d)
New(t, d) ==
    /\ call' = "new"
    /\ res' = Ok(Chunk_new(t, d))
    /\ made' = "new"
    /\ src' = <<>>
    /\ buf' = <<>>
    /\ orig' = NoOrig
    /\ UNCHANGED <<pngVars, cliVars>>

\* let bytes = c.as_bytes()
AsBytes ==
    /\ res.kind = "ok"
    /\ call' = "as_bytes"
    /\ buf' = Chunk_as_bytes(res.chunk)
    /\ orig' = [chunk |-> res.chunk, made |-> made]
    /\ UNCHANGED <<res, made, src, pngVars, cliVars>>

\* Chunk::try_from(&bytes) on the buffer as_bytes just returned
TryFromBytes ==
    /\ call = "as_bytes"
    /\ call' = "try_from"
    /\ res' = Chunk_try_from(buf)
    /\ made' = "try_from"
    /\ src' = buf
    /\ UNCHANGED <<buf, orig, pngVars, cliVars>>

\* Chunk::try_from(b) on a buffer from outside
TryFromInput(b) ==
    /\ call' = "try_from"
    /\ res' = Chunk_try_from(b)
    /\ made' = "try_from"
    /\ src' = b
    /\ buf' = b
    /\ orig' = NoOrig
    /\ UNCHANGED <<pngVars, cliVars>>

NextChunk ==
    \/ \E t \in ChunkTypes, d \in Payloads : New(t, d)
    \/ AsBytes
    \/ TryFromBytes
    \/ \E b \in InputBuffers : TryFromInput(b)

(***************************************************************************)
(* Png, the container: the 8-byte signature and the ordered chunk list.    *)
(***************************************************************************)
Signature == <<137, 80, 78, 71, 13, 10, 26, 10>>

usize_from_u32(x) == x.hi * 65536 + x.lo

PngOk(cs) == [kind |-> "ok", err |-> "", chunks |-> cs]
PngFail(k, e) == [kind |-> k, err |-> e, chunks |-> <<>>]

\* the loop of Png::try_from: parse a chunk at the head of what is left, step
\* over the 12 + L bytes it took, stop at the first failure
RECURSIVE ParseChunks(_, _)
ParseChunks(rest, acc) ==
    LET Parsed(r) ==
            IF r.kind # "ok" THEN PngFail(r.kind, r.err)
            ELSE ParseChunks(Drop(rest, 12 + usize_from_u32(r.chunk.length)),
                             Append(acc, r.chunk))
    IN  IF rest = <<>> THEN PngOk(acc) ELSE Parsed(Chunk_try_from(rest))

\* TryFrom<&[u8]> for Png
Png_try_from(bytes) ==
    IF Take(bytes, 8) # Signature THEN PngFail("err", "InvalidSignature")
    ELSE ParseChunks(Drop(bytes, 8), <<>>)

\* Png::append_chunk
Png_append_chunk(cs, c) == Append(cs, c)

\* positions of the chunks whose type reads as the string ty
Matches(cs, ty) == {i \in 1..Len(cs) : ChunkType_to_string(cs[i].chunk_type) = ty}
FirstMatch(cs, ty) == CHOOSE i \in Matches(cs, ty) : \A j \in Matches(cs, ty) : i <= j

LastMatch(cs, ty) == CHOOSE i \in Matches(cs, ty) : \A j \in Matches(cs, ty) : i >= j

\* remove_chunk taking the last chunk of the type
Png_remove_chunk_Last(cs, ty) ==
    IF Matches(cs, ty) = {}
    THEN [ret |-> Err("ChunkNotFound"), chunks |-> cs]
    ELSE LET k == LastMatch(cs, ty)
         IN  [ret    |-> Ok(cs[k]),
              chunks |-> SubSeq(cs, 1, k - 1) \o SubSeq(cs, k + 1, Len(cs))]

\* Png::remove_chunk: the list afterwards and what is returned
Png_remove_chunk(cs, ty) ==
    IF Matches(cs, ty) = {}
    THEN [ret |-> Err("ChunkNotFound"), chunks |-> cs]
    ELSE LET k == FirstMatch(cs, ty)
         IN  [ret    |-> Ok(cs[k]),
              chunks |-> SubSeq(cs, 1, k - 1) \o SubSeq(cs, k + 1, Len(cs))]

\* Png::chunk_by_type: Some(first match) or None
Png_chunk_by_type(cs, ty) ==
    IF Matches(cs, ty) = {} THEN <<>> ELSE <<cs[FirstMatch(cs, ty)]>>

\* Png::as_bytes
Png_as_bytes(cs) == Signature \o Concat([i \in 1..Len(cs) |-> Chunk_as_bytes(cs[i])])

(***************************************************************************)
(* Inputs of the container-level exploration.                              *)
(***************************************************************************)
PngPayloads == {<<>>, <<65>>}
PngRecords == {RecordOf(t, d) : t \in ChunkTypes, d \in PngPayloads}
RecordLists == SeqsUpTo(PngRecords, MaxChunks)

\* the signature and N well-formed records back to back
WellFormed == {Signature \o Concat(rs) : rs \in RecordLists}

\* buffers handed to Png::try_from: the well-formed ones, and each with a bad
\* signature, its last byte missing, a byte or a stub of a record after it,
\* or its last byte (of the last crc) changed
PngInputs ==
    WellFormed
    \cup {[w EXCEPT ![1] = 0] : w \in WellFormed}
    \cup {SubSeq(w, 1, Len(w) - 1) : w \in WellFormed}
    \cup {w \o <<7>> : w \in WellFormed}
    \cup {w \o <<0, 0, 0, 0, 82>> : w \in WellFormed}
    \cup {[w EXCEPT ![Len(w)] = Xor8(@, 1)] : w \in {v \in WellFormed : Len(v) > 8}}

IDAT == <<73, 68, 65, 84>>
TypeStrings == {ChunkType_to_string(RuSt), ChunkType_to_string(tEXt), IDAT}

(***************************************************************************)
(* Container-level state: one Png from its construction on.                *)
(***************************************************************************)
InitPng ==
    /\ png = PngFail("none", "")
    /\ pcall = "none"
    /\ pbuf = <<>>
    /\ parg = <<>>
    /\ pprev = <<>>
    /\ pret = Err("")

\* let mut png = Png::try_from(b)
PngTryFrom(b) ==
    /\ png.kind = "none"
    /\ png' = Png_try_from(b)
    /\ pcall' = "try_from"
    /\ pbuf' = b
    /\ UNCHANGED <<parg, pprev, pret, chunkVars, cliVars>>

\* png.append_chunk(Chunk::new(t, d))
AppendChunk(t, d) ==
    /\ png.kind = "ok"
    /\ Len(png.chunks) <= MaxChunks
    /\ png' = [png EXCEPT !.chunks = Png_append_chunk(@, Chunk_new(t, d))]
    /\ pcall' = "append_chunk"
    /\ pprev' = png.chunks
    /\ pbuf' = <<>>
    /\ parg' = <<>>
    /\ pret' = Err("")
    /\ UNCHANGED <<chunkVars, cliVars>>

\* png.remove_chunk(ty)
RemoveChunk(ty) ==
    /\ png.kind = "ok"
    /\ \E r \in {Png_remove_chunk(png.chunks, ty)} :
          /\ png' = [png EXCEPT !.chunks = r.chunks]
          /\ pret' = r.ret
    /\ pcall' = "remove_chunk"
    /\ pprev' = png.chunks
    /\ parg' = ty
    /\ pbuf' = <<>>
    /\ UNCHANGED <<chunkVars, cliVars>>

NextPng ==
    \/ \E b \in PngInputs : PngTryFrom(b)
    \/ \E t \in ChunkTypes, d \in PngPayloads : AppendChunk(t, d)
    \/ \E ty \in TypeStrings : RemoveChunk(ty)

(***************************************************************************)
(* The command line (main.rs): every command reads a file, parses it as a  *)
(* Png and acts on it.  A file system is a function from paths to files;   *)
(* a run of main ends "ok", "err" (main returns the error) or "panic".     *)
(* Failures of the operating system other than a missing input file are    *)
(* not explored, and File::write is taken to write the whole buffer.       *)
(* In each command Parsed(parsed) is what follows `Png::try_from(..)`.     *)
(***************************************************************************)
Paths == {"a", "b"}
NoFile == [exists |-> FALSE, bytes |-> <<>>]
FileOf(bs) == [exists |-> TRUE, bytes |-> bs]

Ran(fs, k, e, printed) == [files |-> fs, kind |-> k, err |-> e, stdout |-> printed]

\* get_file_bytes: File::open fails on a path that does not exist
get_file_bytes(fs, path) ==
    IF fs[path].exists THEN [kind |-> "ok", err |-> "", bytes |-> fs[path].bytes]
    ELSE [kind |-> "err", err |-> "NotFound", bytes |-> <<>>]

\* File::create(path) followed by write(bytes)
create_and_write(fs, path, bs) == [fs EXCEPT ![path] = FileOf(bs)]

\* Commands::Encode writing to file_path whatever output_file says
main_Encode_IgnoresOutput(fs, file_path, chunk_type, message, output_file) ==
    LET bytes == get_file_bytes(fs, file_path)
        Parsed(parsed) ==
            IF parsed.kind # "ok" THEN Ran(fs, parsed.kind, parsed.err, <<>>)
            ELSE
            LET ty == ChunkType_from_str(chunk_type)
            IN  IF ty.kind # "ok" THEN Ran(fs, "err", ty.err, <<>>)
                ELSE
                LET chunk == Chunk_new(ty.chunk_type, str_as_bytes(message))
                    cs    == Png_append_chunk(parsed.chunks, chunk)
                IN  Ran(create_and_write(fs, file_path, Png_as_bytes(cs)), "ok", "", <<>>)
    IN  IF bytes.kind # "ok" THEN Ran(fs, "err", bytes.err, <<>>)
        ELSE Parsed(Png_try_from(bytes.bytes))

\* Commands::Encode with File::create moved up, before the chunk type is parsed
main_Encode_CreateFirst(fs, file_path, chunk_type, message, output_file) ==
    LET bytes  == get_file_bytes(fs, file_path)
        target == IF output_file = <<>> THEN file_path ELSE output_file[1]
        Parsed(parsed) ==
            IF parsed.kind # "ok" THEN Ran(fs, parsed.kind, parsed.err, <<>>)
            ELSE
            LET ty == ChunkType_from_str(chunk_type)
            IN  IF ty.kind # "ok"
                THEN Ran(create_and_write(fs, target, <<>>), "err", ty.err, <<>>)
                ELSE
                LET chunk == Chunk_new(ty.chunk_type, str_as_bytes(message))
                    cs    == Png_append_chunk(parsed.chunks, chunk)
                IN  Ran(create_and_write(fs, target, Png_as_bytes(cs)), "ok", "", <<>>)
    IN  IF bytes.kind # "ok" THEN Ran(fs, "err", bytes.err, <<>>)
        ELSE Parsed(Png_try_from(bytes.bytes))

\* Commands::Encode; output_file is <<>> (None) or <<path>> (Some)
main_Encode(fs, file_path, chunk_type, message, output_file) ==
    LET bytes == get_file_bytes(fs, file_path)
        Parsed(parsed) ==
            IF parsed.kind # "ok" THEN Ran(fs, parsed.kind, parsed.err, <<>>)
            ELSE
            LET ty == ChunkType_from_str(chunk_type)
            IN  IF ty.kind # "ok" THEN Ran(fs, "err", ty.err, <<>>)
                ELSE
                LET chunk  == Chunk_new(ty.chunk_type, str_as_bytes(message))
                    cs     == Png_append_chunk(parsed.chunks, chunk)
                    target == IF output_file = <<>> THEN file_path ELSE output_file[1]
                IN  Ran(create_and_write(fs, target, Png_as_bytes(cs)), "ok", "", <<>>)
    IN  IF bytes.kind # "ok" THEN Ran(fs, "err", bytes.err, <<>>)
        ELSE Parsed(Png_try_from(bytes.bytes))

\* Commands::Decode; println! adds one line to the output
main_Decode(fs, file_path, chunk_type) ==
    LET bytes == get_file_bytes(fs, file_path)
        Parsed(parsed) ==
            IF parsed.kind # "ok" THEN Ran(fs, parsed.kind, parsed.err, <<>>)
            ELSE
            LET found == Png_chunk_by_type(parsed.chunks, chunk_type)
            IN  IF found = <<>> THEN Ran(fs, "err", "Chunk not found", <<>>)
                ELSE Ran(fs, "ok", "", <<Chunk_data_as_string(found[1])>>)
    IN  IF bytes.kind # "ok" THEN Ran(fs, "err", bytes.err, <<>>)
        ELSE Parsed(Png_try_from(bytes.bytes))

\* Commands::Remove
main_Remove(fs, file_path, chunk_type) ==
    LET bytes == get_file_bytes(fs, file_path)
        Parsed(parsed) ==
            IF parsed.kind # "ok" THEN Ran(fs, parsed.kind, parsed.err, <<>>)
            ELSE
            LET removed == Png_remove_chunk(parsed.chunks, chunk_type)
            IN  IF removed.ret.kind # "ok" THEN Ran(fs, "err", removed.ret.err, <<>>)
                ELSE Ran(create_and_write(fs, file_path, Png_as_bytes(removed.chunks)),
                         "ok", "", <<>>)
    IN  IF bytes.kind # "ok" THEN Ran(fs, "err", bytes.err, <<>>)
        ELSE Parsed(Png_try_from(bytes.bytes))

\* Commands::Print; the line printed is the Display form of the container,
\* kept here as the chunk list it is made from
main_Print(fs, file_path) ==
    LET bytes == get_file_bytes(fs, file_path)
        Parsed(parsed) ==
            IF parsed.kind # "ok" THEN Ran(fs, parsed.kind, parsed.err, <<>>)
            ELSE Ran(fs, "ok", "", <<parsed.chunks>>)
    IN  IF bytes.kind # "ok" THEN Ran(fs, "err", bytes.err, <<>>)
        ELSE Parsed(Png_try_from(bytes.bytes))

(***************************************************************************)
(* Inputs of the command-line exploration.                                 *)
(***************************************************************************)
Messages == {<<65>>, <<233>>}
Ru1t == <<82, 117, 49, 116>>
\* the chunk types given to encode, and those given to decode and remove
EncodeTypes == {ChunkType_to_string(RuSt), Ru1t}
LookupTypes == {ChunkType_to_string(RuSt), ChunkType_to_string(tEXt)}
OutputFiles == {<<>>, <<"b">>}
\* the files edited in place, and the files read
EditedPaths == {"a"}

\* the records of the containers file "a" may hold at the start
InitialRecords == {RecordOf(RuSt, <<65>>), RecordOf(tEXt, <<66>>)}
GoodFiles == {Signature \o Concat(rs) : rs \in SeqsUpTo(InitialRecords, MaxChunks)}
OneChunkFiles == {Signature \o r : r \in InitialRecords}

\* what file "a" may hold at the start: a container of up to MaxChunks chunks,
\* a wrong signature, a one-chunk file cut short or with a wrong crc
InitialFiles ==
    GoodFiles
    \cup {[Signature EXCEPT ![1] = 0]}
    \cup {SubSeq(w, 1, Len(w) - 1) : w \in OneChunkFiles}
    \cup {[w EXCEPT ![Len(w)] = Xor8(@, 1)] : w \in OneChunkFiles}

(***************************************************************************)
(* Command-line state.                                                     *)
(***************************************************************************)
NoCmd == [name |-> "none", file |-> "", ty |-> <<>>, msg |-> <<>>, out |-> <<>>]
NoEnc == [valid |-> FALSE, target |-> "", ty |-> <<>>, msg |-> <<>>,
          had |-> FALSE, first |-> <<>>]

InitCli ==
    /\ \E w \in InitialFiles : files = [p \in Paths |-> IF p = "a" THEN FileOf(w) ELSE NoFile]
    /\ cmd = NoCmd
    /\ outcome = [kind |-> "none", err |-> ""]
    /\ stdout = <<>>
    /\ enc = NoEnc
    /\ prevEnc = NoEnc

\* no command has run and no file exists
IdleCli ==
    /\ files = [p \in Paths |-> NoFile]
    /\ cmd = NoCmd
    /\ outcome = [kind |-> "none", err |-> ""]
    /\ stdout = <<>>
    /\ enc = NoEnc
    /\ prevEnc = NoEnc

\* the bookkeeping every command shares: r is what main did
Finish(c, r) ==
    /\ cmd' = c
    /\ files' = r.files
    /\ outcome' = [kind |-> r.kind, err |-> r.err]
    /\ stdout' = r.stdout
    /\ prevEnc' = enc
    /\ UNCHANGED <<chunkVars, pngVars>>

\* what an encode that succeeded leaves in enc: the target, the arguments, and
\* the first chunk of that type the input file held (before = chunk_by_type)
EncOf(f, ty, m, o, before) ==
    [valid  |-> TRUE,
     target |-> IF o = <<>> THEN f ELSE o[1],
     ty     |-> ty,
     msg    |-> m,
     had    |-> before # <<>>,
     first  |-> IF before = <<>> THEN <<>> ELSE <<before[1].chunk_data>>]

\* pngme encode <file_path> <chunk_type> <message> [output_file]
Encode(f, ty, m, o) ==
    \E held \in {Png_try_from(files[f].bytes).chunks} :
        /\ Len(held) < MaxChunks
        /\ \E r \in {main_Encode(files, f, ty, m, o)} :
              /\ Finish([name |-> "encode", file |-> f, ty |-> ty, msg |-> m, out |-> o], r)
              /\ enc' = IF r.kind = "ok"
                        THEN EncOf(f, ty, m, o, Png_chunk_by_type(held, ty))
                        ELSE NoEnc

\* pngme decode <file_path> <chunk_type>
Decode(f, ty) ==
    /\ \E r \in {main_Decode(files, f, ty)} :
          Finish([name |-> "decode", file |-> f, ty |-> ty, msg |-> <<>>, out |-> <<>>], r)
    /\ enc' = NoEnc

\* pngme remove <file_path> <chunk_type>
Remove(f, ty) ==
    /\ \E r \in {main_Remove(files, f, ty)} :
          Finish([name |-> "remove", file |-> f, ty |-> ty, msg |-> <<>>, out |-> <<>>], r)
    /\ enc' = NoEnc

\* pngme print <file_path>
PrintCmd(f) ==
    /\ \E r \in {main_Print(files, f)} :
          Finish([name |-> "print", file |-> f, ty |-> <<>>, msg |-> <<>>, out |-> <<>>], r)
    /\ enc' = NoEnc

NextCli ==
    \/ \E f \in EditedPaths, ty \in EncodeTypes, m \in Messages, o \in OutputFiles :
          Encode(f, ty, m, o)
    \/ \E f \in Paths, ty \in LookupTypes : Decode(f, ty)
    \/ \E f \in EditedPaths, ty \in LookupTypes : Remove(f, ty)
    \/ \E f \in Paths : PrintCmd(f)

vars == <<chunkVars, pngVars, cliVars>>

\* the three explorations; each leaves the state of the other two alone
Init == InitChunk /\ InitPng /\ IdleCli
InitFiles == InitChunk /\ InitPng /\ InitCli

Spec == Init /\ [][NextChunk]_vars

SpecPng == Init /\ [][NextPng]_vars

SpecCli == InitFiles /\ [][NextCli]_vars

(***************************************************************************)
(* Chunk-level properties, checked under Spec.                             *)
(***************************************************************************)
SameFields(c1, c2) ==
    /\ c1.length = c2.length
    /\ c1.chunk_type = c2.chunk_type
    /\ c1.chunk_data = c2.chunk_data
    /\ c1.crc = c2.crc

\* C1: parsing the bytes as_bytes produced from a chunk built by Chunk::new
\* succeeds and gives a chunk with the same length, type, data and crc.
C1_ChunkRoundTrip ==
    (call = "try_from" /\ orig.made = "new")
        => (res.kind = "ok" /\ SameFields(res.chunk, orig.chunk))

C1_Witness ==
    /\ call = "try_from"
    /\ orig.made = "new"
    /\ res.kind = "ok"
    /\ Len(res.chunk.chunk_data) > 0
    /\ src = Chunk_as_bytes(orig.chunk)

\* the buffer declares a length but is shorter than 8 + L + 4 bytes
Truncated(b) ==
    \/ Len(b) < 4
    \/ LET L == u32_from_be_bytes(Take(b, 4))
       IN  L.hi > 0 \/ Len(b) < 12 + L.lo

\* C2: on a truncated buffer Chunk::try_from returns the TruncatedInput error
\* (an error value, no panic).
C2_Truncation ==
    (call = "try_from" /\ Truncated(src))
        => (res.kind = "err" /\ res.err = "TruncatedInput")

\* C3 as claimed: serialising a chunk parsed from a buffer gives that buffer back.
C3_ParseAsBytesInverse ==
    (call = "as_bytes" /\ orig.made = "try_from") => buf = src

\* C3: serialising a chunk parsed from a buffer gives back the record at the
\* head of that buffer, its first 12 + L bytes; all of the buffer when the
\* buffer holds nothing after the record.
C3_ParseAsBytesPrefix ==
    (call = "as_bytes" /\ orig.made = "try_from")
        => /\ Len(buf) = 12 + Len(orig.chunk.chunk_data)
           /\ Len(buf) <= Len(src)
           /\ buf = SubSeq(src, 1, Len(buf))
           /\ (Len(src) = Len(buf) => buf = src)

C3_Witness ==
    /\ call = "as_bytes"
    /\ orig.made = "try_from"
    /\ Len(src) > Len(buf)
    /\ Len(orig.chunk.chunk_data) > 0

\* C4: a buffer that parses no longer parses once one bit of its crc field
\* (the 4 bytes that follow the payload) is flipped: the result is InvalidCrc.
C4_CrcEnforcement ==
    (call = "try_from" /\ res.kind = "ok")
        => \A i \in 0..31 :
              Chunk_try_from(FlipCrcBit(src, 12 + Len(res.chunk.chunk_data), i))
                  = Err("InvalidCrc")

\* a record with a flipped crc bit has been parsed and refused
C4_Witness ==
    /\ call = "try_from"
    /\ res = Err("InvalidCrc")
    /\ \E r \in Records, i \in FlipBits : src = FlipCrcBit(r, Len(r), i)

\* C6: the length of a chunk from Chunk::new or from a successful parse is the
\* number of bytes of its data.
C6_LengthDerived ==
    res.kind = "ok"
        => res.chunk.length = u32_from_usize(Len(res.chunk.chunk_data))

\* a parse succeeded on a buffer from outside, with a payload and bytes after it
C6_Witness ==
    /\ call = "try_from"
    /\ orig = NoOrig
    /\ res.kind = "ok"
    /\ Len(res.chunk.chunk_data) > 0
    /\ Len(src) > 12 + Len(res.chunk.chunk_data)

(***************************************************************************)
(* Container-level properties, checked under SpecPng.                      *)
(***************************************************************************)
CrcHolds(c) == c.crc = Crc32IsoHdlc(ChunkType_bytes(c.chunk_type) \o c.chunk_data)

\* C5: every chunk of the container, and every chunk remove_chunk returned,
\* carries the CRC-32/ISO-HDLC of its type bytes followed by its data.
C5_CrcInvariant ==
    /\ \A i \in 1..Len(png.chunks) : CrcHolds(png.chunks[i])
    /\ pret.kind = "ok" => CrcHolds(pret.chunk)

\* a parsed container that took a new chunk and then gave one up
C5_Witness ==
    /\ pcall = "remove_chunk"
    /\ pret.kind = "ok"
    /\ Len(png.chunks) >= 2
    /\ \E i \in 1..Len(png.chunks) : Len(png.chunks[i].chunk_data) > 0

\* C7: a buffer made of the signature and N well-formed records parses to
\* exactly those N chunks in buffer order, and serialises back to the buffer.
C7_ContainerRoundTrip ==
    pcall = "try_from" =>
        \A rs \in RecordLists :
            pbuf = Signature \o Concat(rs) =>
                /\ png.kind = "ok"
                /\ Len(png.chunks) = Len(rs)
                /\ \A i \in 1..Len(rs) : Chunk_as_bytes(png.chunks[i]) = rs[i]
                /\ Png_as_bytes(png.chunks) = pbuf

C7_Witness ==
    /\ pcall = "try_from"
    /\ pbuf \in WellFormed
    /\ png.kind = "ok"
    /\ Len(png.chunks) >= 2
    /\ png.chunks[1] # png.chunks[2]

\* C8: remove_chunk(T) without a chunk of type T fails with ChunkNotFound and
\* leaves the list as it was; otherwise it returns the first chunk of type T
\* and the list is the old one without that one element.
C8_RemoveSemantics ==
    pcall = "remove_chunk" =>
        LET m == {i \in 1..Len(pprev) : ChunkType_to_string(pprev[i].chunk_type) = parg}
        IN  IF m = {}
            THEN pret = Err("ChunkNotFound") /\ png.chunks = pprev
            ELSE \E k \in m :
                    /\ \A j \in m : k <= j
                    /\ pret = Ok(pprev[k])
                    /\ Len(png.chunks) = Len(pprev) - 1
                    /\ \A i \in 1..Len(png.chunks) :
                          png.chunks[i] = IF i < k THEN pprev[i] ELSE pprev[i + 1]

\* the first of two chunks of the type was removed, the second is still there
C8_Witness ==
    /\ pcall = "remove_chunk"
    /\ pret.kind = "ok"
    /\ \E i \in 1..Len(png.chunks) :
          /\ ChunkType_to_string(png.chunks[i].chunk_type) = parg
          /\ png.chunks[i] # pret.chunk

(***************************************************************************)
(* Command-line properties, checked under SpecCli.                         *)
(***************************************************************************)
\* the last command was a decode of the file and type of the encode before it,
\* and the message encoded was ASCII
DecodedAfterEncode ==
    /\ cmd.name = "decode"
    /\ prevEnc.valid
    /\ cmd.file = prevEnc.target
    /\ cmd.ty = prevEnc.ty
    /\ IsAscii(prevEnc.msg)

\* the string data_as_string makes of payload bytes
AsChars(d) == [i \in 1..Len(d) |-> d[i]]

\* C9 as claimed: decode prints the message exactly when the file held no
\* chunk of the type before the encode, and else the data of the earlier chunk.
C9_DecodesMessageIff ==
    DecodedAfterEncode =>
        /\ (stdout = <<prevEnc.msg>>) <=> ~prevEnc.had
        /\ prevEnc.had => stdout = <<AsChars(prevEnc.first[1])>>

\* C9: decode after encode succeeds; it prints the message when the file held
\* no chunk of the type before, and the data of the first earlier chunk of the
\* type when it held one, which is the message only if that data is the
\* message's bytes.
C9_EncodeThenDecode ==
    DecodedAfterEncode =>
        /\ outcome.kind = "ok"
        /\ ~prevEnc.had => stdout = <<prevEnc.msg>>
        /\ prevEnc.had => stdout = <<AsChars(prevEnc.first[1])>>
        /\ (stdout = <<prevEnc.msg>>)
              <=> (~prevEnc.had \/ prevEnc.first = <<str_as_bytes(prevEnc.msg)>>)

\* an earlier chunk of the type, with other data, is what decode printed
C9_Witness ==
    /\ DecodedAfterEncode
    /\ prevEnc.had
    /\ stdout # <<prevEnc.msg>>
    /\ Len(stdout) = 1

\* C10: an encode or remove that does not succeed leaves every file as it
\* was; a container that fails to parse, a chunk type encode rejects and a
\* type remove does not find each end the command with that error.
C10_Step ==
    cmd'.name \in {"encode", "remove"} =>
        /\ outcome'.kind # "ok" => files' = files
        /\ files[cmd'.file].exists =>
              LET parsed == Png_try_from(files[cmd'.file].bytes)
              IN  /\ parsed.kind = "err"
                        => outcome' = [kind |-> "err", err |-> parsed.err]
                  /\ (parsed.kind = "ok" /\ cmd'.name = "encode"
                          /\ ChunkType_from_str(cmd'.ty).kind # "ok")
                        => outcome' = [kind |-> "err", err |-> "InvalidChunkType"]
                  /\ (parsed.kind = "ok" /\ cmd'.name = "remove"
                          /\ Matches(parsed.chunks, cmd'.ty) = {})
                        => outcome' = [kind |-> "err", err |-> "ChunkNotFound"]

C10_NoWriteOnFailure == [][C10_Step]_vars

\* encode refused the chunk type; the output file it was given is there, untouched
C10_Witness ==
    /\ cmd.name = "encode"
    /\ outcome = [kind |-> "err", err |-> "InvalidChunkType"]
    /\ cmd.out = <<"b">>
    /\ files["b"].exists
    /\ Len(files["b"].bytes) > Len(Signature)

====
